---- MODULE Spec2Model ----
(***************************************************************************)
(* Model of the dispatch simulation of the Yunfeng dashboard               *)
(* (src/index.tsx and src/src/components/YunfengDashboard.tsx).            *)
(*                                                                         *)
(* runSimulation is modelled step by step: one step per callback of the    *)
(* generating Array.from(...).map, one step for the sort and the           *)
(* declaration of the allocation counters, one step per callback of the    *)
(* allocating sortedOrders.map, and one step for the metrics and the two   *)
(* state setters.                                                          *)
(*                                                                         *)
(* Money is counted in units of 1/2000 Yuan, so that 13.5 Yuan/km and the  *)
(* factor 1.153 applied to a multiple of half a Yuan are whole numbers.    *)
(* The fields type, size, x and y of an order are not read by the          *)
(* allocation logic and are left out of the order record; x and y enter    *)
(* only through the pixel distance distPx drawn for the order.             *)
(***************************************************************************)
EXTENDS Integers, Sequences, FiniteSets

\* ---- bounds of the model ------------------------------------------------
MaxOrders == 3
MaxFleet == 3
MaxDraw == 2
MaxRunOrders == 2
MaxRunFleet == 2

\* The two copies of the dashboard differ only in the map constants.
Builds == {"index", "component"}

\* Pixel distances the two random draws of x and y may produce (both copies
\* can produce every one of them); 80 and 81 give the same distance in km.
PxDraws == {81} \cup {80 + 60 * k : k \in 0..MaxDraw}

\* Values of the two inputs, numOrders and fleetSize.  The component starts
\* them at 84 and 30 and its sliders offer 10..150 and 5..50, but
\* runSimulation reads both unchecked; the model hands it small values of
\* every kind: negative, zero, fewer trucks than orders and at least as many.
OrderCounts == (-1)..MaxOrders
FleetSizes == (-1)..MaxFleet

\* Values the two sliders can set (scaled down from 10..150 and 5..50): the
\* sliders only offer positive numbers.
SliderOrderCounts == 1..MaxRunOrders
SliderFleetSizes == 1..MaxRunFleet

\* ---- constants from Zhen et al. (2021) ----------------------------------
MoneyScale == 2000
COST_OWNED_FIXED == 300 * MoneyScale
COST_OWNED_PER_KM == 27000
COST_3RD_PARTY_FIXED == 2000 * MoneyScale
COST_3RD_PARTY_PER_KM == 28000
INFLATION_PER_MILLE == 1153
\* 0.27 kg/km, counted in 1/100 kg
CO2_PER_KM == 27

VARIABLES build, numOrders, fleetSize, orders, result,
          pc, newOrders, sortedOrders, visited,
          currentCost, ownedCount, outsourcedCount, kmCount,
          availableTrucks, scheduleLog

vars == <<build, numOrders, fleetSize, orders, result,
          pc, newOrders, sortedOrders, visited,
          currentCost, ownedCount, outsourcedCount, kmCount,
          availableTrucks, scheduleLog>>

\* useState(null) of result
NullResult == [isNull |-> TRUE]

\* ---- pure helpers -------------------------------------------------------

\* Variant of ToLength that never yields an empty batch.
ToLength_at_least_one(n) == IF n < 1 THEN 1 ELSE n

\* ToLength of Array.from({ length: numOrders }): a negative length is 0.
ToLength(n) == IF n < 0 THEN 0 ELSE n

\* Variant of distKm that scales the pixel distance but forgets the offset.
distKm_no_offset(b, distPx) ==
    IF b = "index" THEN (distPx * 5) \div 10
                   ELSE (distPx * 4) \div 10

\* distKm = Math.floor(distPx * 0.5) + 50   (index.tsx)
\* distKm = Math.floor(distPx * 0.4) + 40   (YunfengDashboard.tsx)
distKm(b, distPx) ==
    IF b = "index" THEN ((distPx * 5) \div 10) + 50
                   ELSE ((distPx * 4) \div 10) + 40

\* id: `ORD-${1000 + i}`
OrderId(i) == <<"ORD", 1000 + i>>

\* The object returned by the generating callback for index i.
NewOrder(b, i, distPx, urgent) ==
    [id |-> OrderId(i),
     urgency |-> IF urgent THEN "Urgent" ELSE "Normal",
     distance |-> distKm(b, distPx),
     status |-> "Pending"]

\* Variant of compare that orders equal urgency by ascending distance.
compare_ascending(a, b) ==
    IF a.urgency = "Urgent" /\ b.urgency # "Urgent" THEN -1
    ELSE IF a.urgency # "Urgent" /\ b.urgency = "Urgent" THEN 1
    ELSE a.distance - b.distance

\* Variant of compare that never answers 0: a tie is reported as "a first".
compare_no_tie(a, b) ==
    IF a.urgency = "Urgent" /\ b.urgency # "Urgent" THEN -1
    ELSE IF a.urgency # "Urgent" /\ b.urgency = "Urgent" THEN 1
    ELSE IF a.distance >= b.distance THEN -1 ELSE 1

\* Variant of compare that looks at the distance only.
compare_distance_only(a, b) == b.distance - a.distance

\* The comparator handed to sort.
compare(a, b) ==
    IF a.urgency = "Urgent" /\ b.urgency # "Urgent" THEN -1
    ELSE IF a.urgency # "Urgent" /\ b.urgency = "Urgent" THEN 1
    ELSE b.distance - a.distance

\* Array.prototype.sort: a stable sort by the comparator.  s is a sequence
\* of references (positions in objs), sorted by insertion from the right.
RECURSIVE Insert(_, _, _)
Insert(objs, s, x) ==
    IF s = <<>> THEN <<x>>
    ELSE IF compare(objs[x], objs[s[Len(s)]]) < 0
         THEN Append(Insert(objs, SubSeq(s, 1, Len(s) - 1), x), s[Len(s)])
         ELSE Append(s, x)

RECURSIVE Sort(_, _)
Sort(objs, refs) ==
    IF refs = <<>> THEN <<>>
    ELSE Insert(objs, Sort(objs, SubSeq(refs, 1, Len(refs) - 1)), refs[Len(refs)])

\* Variant of OwnedCost that charges the third-party rate per km.
OwnedCost_third_party_rate(distance) ==
    COST_OWNED_FIXED + (distance * COST_3RD_PARTY_PER_KM)

\* cost = COST_OWNED_FIXED + (order.distance * COST_OWNED_PER_KM)
OwnedCost(distance) == COST_OWNED_FIXED + (distance * COST_OWNED_PER_KM)

\* cost = COST_3RD_PARTY_FIXED + (order.distance * COST_3RD_PARTY_PER_KM)
ThirdPartyCost(distance) == COST_3RD_PARTY_FIXED + (distance * COST_3RD_PARTY_PER_KM)

\* Variant of OwnedVehicle numbered from the count before the increment.
OwnedVehicle_before_increment(n) == <<"VEH", n - 1>>

\* assignedVehicle = `VEH-${ownedCount}`
OwnedVehicle(n) == <<"VEH", n>>

\* assignedVehicle = '3RD-PARTY'
ThirdPartyVehicle == <<"3RD-PARTY">>

\* manualEst = currentCost * 1.153 (currentCost is a multiple of half a Yuan)
ManualEst(cost) == (cost \div 1000) * INFLATION_PER_MILLE

\* Variant of SavingVal with the operands exchanged.
SavingVal_reversed(manualEst, cost) == cost - manualEst

\* savingVal = manualEst - currentCost
SavingVal(manualEst, cost) == manualEst - cost

\* Variant of HasTruck with the test dropped.
HasTruck_always(trucks) == TRUE

\* Variant of HasTruck that still assigns a truck when none is left.
HasTruck_inclusive(trucks) == trucks >= 0

\* if (availableTrucks > 0)
HasTruck(trucks) == trucks > 0

\* Variant of SetStatus that writes to a copy and leaves the order untouched.
SetStatus_on_copy(objs, ref, status) == objs

\* order.status = 'Assigned' / order.status = 'Outsourced': the order is an
\* object shared by newOrders, sortedOrders and simulatedOrders.
SetStatus(objs, ref, status) == [objs EXCEPT ![ref].status = status]

\* Variant of AddCost that assigns instead of accumulating.
AddCost_overwrite(total, cost) == cost

\* currentCost += cost
AddCost(total, cost) == total + cost

\* kmCount += order.distance
AddKm(total, distance) == total + distance

\* The record pushed to scheduleLog.
LogEntry(order, vehicle, method, cost) ==
    [orderId |-> order.id,
     vehicleId |-> vehicle,
     method |-> method,
     cost |-> cost,
     distance |-> order.distance]

\* Variant of SimulatedOrders that returns the orders in generation order.
SimulatedOrders_generated(objs, refs) == objs

\* simulatedOrders: the mapped sortedOrders, the same objects in sorted order.
SimulatedOrders(objs, refs) == [k \in 1..Len(refs) |-> objs[refs[k]]]

\* co2: kmCount * CO2_PER_KM
Co2(km) == km * CO2_PER_KM

\* Variant of ResultSnapshot that reports the owned count in both usage fields.
ResultSnapshot_same_usage(log, cost, owned, outsourced, km, manualEst, savingVal) ==
    [isNull |-> FALSE,
     schedule |-> log,
     totalCost |-> cost,
     ownedUsage |-> owned,
     outsourcedUsage |-> owned,
     totalKm |-> km,
     manualCostEst |-> manualEst,
     savings |-> savingVal,
     co2 |-> Co2(km)]

\* The object handed to setResult.
ResultSnapshot(log, cost, owned, outsourced, km, manualEst, savingVal) ==
    [isNull |-> FALSE,
     schedule |-> log,
     totalCost |-> cost,
     ownedUsage |-> owned,
     outsourcedUsage |-> outsourced,
     totalKm |-> km,
     manualCostEst |-> manualEst,
     savings |-> savingVal,
     co2 |-> Co2(km)]

\* ---- state machine ------------------------------------------------------

Init ==
    /\ build \in Builds
    /\ numOrders \in OrderCounts
    /\ fleetSize \in FleetSizes
    /\ orders = <<>>
    /\ result = NullResult
    /\ pc = "generate"
    /\ newOrders = <<>>
    /\ sortedOrders = <<>>
    /\ visited = 0
    /\ currentCost = 0
    /\ ownedCount = 0
    /\ outsourcedCount = 0
    /\ kmCount = 0
    /\ availableTrucks = 0
    /\ scheduleLog = <<>>

\* One callback of Array.from({ length: numOrders }).map((_, i) => ...).
GenerateOrder ==
    /\ pc = "generate"
    /\ Len(newOrders) < ToLength(numOrders)
    /\ \E distPx \in PxDraws, urgent \in BOOLEAN :
          newOrders' = Append(newOrders,
                              NewOrder(build, Len(newOrders), distPx, urgent))
    /\ UNCHANGED <<build, numOrders, fleetSize, orders, result, pc,
                   sortedOrders, visited, currentCost, ownedCount,
                   outsourcedCount, kmCount, availableTrucks, scheduleLog>>

\* Variant of SortOrders whose scheduleLog lives outside runSimulation and is
\* not declared anew.
SortOrders_shared_log ==
    /\ pc = "generate"
    /\ Len(newOrders) = ToLength(numOrders)
    /\ sortedOrders' = Sort(newOrders, [k \in 1..Len(newOrders) |-> k])
    /\ currentCost' = 0
    /\ ownedCount' = 0
    /\ outsourcedCount' = 0
    /\ kmCount' = 0
    /\ availableTrucks' = fleetSize
    /\ visited' = 0
    /\ pc' = "allocate"
    /\ UNCHANGED <<build, numOrders, fleetSize, orders, result, newOrders,
                   scheduleLog>>

\* [...newOrders].sort(comparator) and the declarations before the loop.
SortOrders ==
    /\ pc = "generate"
    /\ Len(newOrders) = ToLength(numOrders)
    /\ sortedOrders' = Sort(newOrders, [k \in 1..Len(newOrders) |-> k])
    /\ currentCost' = 0
    /\ ownedCount' = 0
    /\ outsourcedCount' = 0
    /\ kmCount' = 0
    /\ availableTrucks' = fleetSize
    /\ scheduleLog' = <<>>
    /\ visited' = 0
    /\ pc' = "allocate"
    /\ UNCHANGED <<build, numOrders, fleetSize, orders, result, newOrders>>

\* Body of sortedOrders.map(order => ...), branch availableTrucks > 0.
AssignOwned ==
    /\ pc = "allocate"
    /\ visited < Len(sortedOrders)
    /\ HasTruck(availableTrucks)
    /\ LET ref == sortedOrders[visited + 1]
           order == newOrders[ref]
           cost == OwnedCost(order.distance)
       IN /\ availableTrucks' = availableTrucks - 1
          /\ ownedCount' = ownedCount + 1
          /\ newOrders' = SetStatus(newOrders, ref, "Assigned")
          /\ currentCost' = AddCost(currentCost, cost)
          /\ kmCount' = AddKm(kmCount, order.distance)
          /\ scheduleLog' = Append(scheduleLog,
                 LogEntry(order, OwnedVehicle(ownedCount + 1), "Owned", cost))
    /\ visited' = visited + 1
    /\ UNCHANGED <<build, numOrders, fleetSize, orders, result, pc,
                   sortedOrders, outsourcedCount>>

\* Body of sortedOrders.map(order => ...), else branch.
Outsource ==
    /\ pc = "allocate"
    /\ visited < Len(sortedOrders)
    /\ ~HasTruck(availableTrucks)
    /\ LET ref == sortedOrders[visited + 1]
           order == newOrders[ref]
           cost == ThirdPartyCost(order.distance)
       IN /\ outsourcedCount' = outsourcedCount + 1
          /\ newOrders' = SetStatus(newOrders, ref, "Outsourced")
          /\ currentCost' = AddCost(currentCost, cost)
          /\ kmCount' = AddKm(kmCount, order.distance)
          /\ scheduleLog' = Append(scheduleLog,
                 LogEntry(order, ThirdPartyVehicle, "Outsourced", cost))
    /\ visited' = visited + 1
    /\ UNCHANGED <<build, numOrders, fleetSize, orders, result, pc,
                   sortedOrders, availableTrucks, ownedCount>>

\* Metrics, setOrders(simulatedOrders) and setResult({...}).
Publish ==
    /\ pc = "allocate"
    /\ visited = Len(sortedOrders)
    /\ LET manualEst == ManualEst(currentCost)
           savingVal == SavingVal(manualEst, currentCost)
       IN /\ orders' = SimulatedOrders(newOrders, sortedOrders)
          /\ result' = ResultSnapshot(scheduleLog, currentCost, ownedCount,
                                      outsourcedCount, kmCount, manualEst,
                                      savingVal)
    /\ pc' = "done"
    /\ UNCHANGED <<build, numOrders, fleetSize, newOrders, sortedOrders,
                   visited, currentCost, ownedCount, outsourcedCount,
                   kmCount, availableTrucks, scheduleLog>>

Next == GenerateOrder \/ SortOrders \/ AssignOwned \/ Outsource \/ Publish

Spec == Init /\ [][Next]_vars

\* ---- the component across slider changes --------------------------------

\* The mounted component: useState values within the slider ranges and the
\* mount effect about to call runSimulation.
InitRuns ==
    /\ build \in Builds
    /\ numOrders \in SliderOrderCounts
    /\ fleetSize \in SliderFleetSizes
    /\ orders = <<>>
    /\ result = NullResult
    /\ pc = "generate"
    /\ newOrders = <<>>
    /\ sortedOrders = <<>>
    /\ visited = 0
    /\ currentCost = 0
    /\ ownedCount = 0
    /\ outsourcedCount = 0
    /\ kmCount = 0
    /\ availableTrucks = 0
    /\ scheduleLog = <<>>

\* onChange of the order slider: setNumOrders(parseInt(e.target.value)); the
\* changed dependency makes useEffect call runSimulation, which starts with
\* a new newOrders array.  The other locals are declared anew in SortOrders;
\* orders and result keep the earlier snapshot until Publish replaces it.
SetNumOrders ==
    /\ pc = "done"
    /\ \E n \in SliderOrderCounts \ {numOrders} : numOrders' = n
    /\ newOrders' = <<>>
    /\ pc' = "generate"
    /\ UNCHANGED <<build, fleetSize, orders, result, sortedOrders, visited,
                   currentCost, ownedCount, outsourcedCount, kmCount,
                   availableTrucks, scheduleLog>>

\* onChange of the fleet slider: setFleetSize(parseInt(e.target.value)).
SetFleetSize ==
    /\ pc = "done"
    /\ \E f \in SliderFleetSizes \ {fleetSize} : fleetSize' = f
    /\ newOrders' = <<>>
    /\ pc' = "generate"
    /\ UNCHANGED <<build, numOrders, orders, result, sortedOrders, visited,
                   currentCost, ownedCount, outsourcedCount, kmCount,
                   availableTrucks, scheduleLog>>

NextRuns ==
    \/ GenerateOrder \/ SortOrders \/ AssignOwned \/ Outsource \/ Publish
    \/ SetNumOrders \/ SetFleetSize

SpecRuns == InitRuns /\ [][NextRuns]_vars

\* ---- properties ---------------------------------------------------------

\* The order object visited k-th by the allocation loop.
Visited(k) == newOrders[sortedOrders[k]]

InLoop == pc \in {"allocate", "done"}

Completed == pc = "done"

\* C1: ownedUsage + outsourcedUsage equals the number of orders processed
\* (the length of the schedule log): after each visited order the two
\* running counts sum to the number of records so far, and in the published
\* result the two usages sum to the length of the schedule, which holds one
\* record per generated order.
C1_UsageSumsToProcessed ==
    /\ InLoop => /\ ownedCount + outsourcedCount = Len(scheduleLog)
                 /\ Len(scheduleLog) = visited
    /\ Completed => /\ result.ownedUsage + result.outsourcedUsage
                         = Len(result.schedule)
                    /\ Len(result.schedule) = Len(newOrders)
                    /\ Len(result.schedule) = ToLength(numOrders)

C1_Witness ==
    /\ Completed
    /\ result.ownedUsage > 0
    /\ result.outsourcedUsage > 0
    /\ Len(result.schedule) = 3

\* C2: during the allocation loop and in the published result the number of
\* orders assigned to owned vehicles never exceeds fleetSize, whatever
\* fleetSize the run is given.
C2_OwnedWithinFleet ==
    /\ InLoop => ownedCount <= fleetSize
    /\ Completed => result.ownedUsage <= fleetSize

\* C3: the dispatch sequence is sorted and is a permutation of the generated
\* orders: no Normal order precedes an Urgent one, and orders of the same
\* urgency appear with non-increasing distance.
C3_DispatchSorted ==
    InLoop =>
       /\ Len(sortedOrders) = Len(newOrders)
       /\ {sortedOrders[k] : k \in 1..Len(sortedOrders)} = 1..Len(newOrders)
       /\ \A i, j \in 1..Len(sortedOrders) :
             i < j =>
                /\ ~(Visited(i).urgency = "Normal" /\ Visited(j).urgency = "Urgent")
                /\ Visited(i).urgency = Visited(j).urgency
                      => Visited(i).distance >= Visited(j).distance

\* The sort had to move an Urgent order in front of a Normal one and a
\* farther order in front of a nearer one of the same urgency.
C3_Witness ==
    /\ InLoop
    /\ Len(sortedOrders) = 3
    /\ \E i, j \in 1..3 :
          /\ sortedOrders[i] > sortedOrders[j] /\ i < j
          /\ Visited(i).urgency = "Urgent" /\ Visited(j).urgency = "Normal"
    /\ \E i, j \in 1..3 :
          /\ sortedOrders[i] > sortedOrders[j] /\ i < j
          /\ Visited(i).urgency = Visited(j).urgency
          /\ Visited(i).distance > Visited(j).distance

\* C4: the sort is stable: two orders with equal urgency and equal distance
\* keep the relative order of the generated list (ascending generation
\* index, hence ascending id).
C4_StableForTies ==
    InLoop =>
       \A i, j \in 1..Len(sortedOrders) :
          (/\ i < j
           /\ Visited(i).urgency = Visited(j).urgency
           /\ Visited(i).distance = Visited(j).distance)
          => /\ sortedOrders[i] < sortedOrders[j]
             /\ Visited(i).id[2] < Visited(j).id[2]

\* Two tied orders were generated around an order that the sort moved in
\* front of both.
C4_Witness ==
    /\ InLoop
    /\ Len(sortedOrders) = 3
    /\ sortedOrders = <<2, 1, 3>>
    /\ Visited(2).urgency = Visited(3).urgency
    /\ Visited(2).distance = Visited(3).distance

\* C5: the allocator appends exactly one record per order and the schedule
\* log follows the sorted dispatch sequence: the i-th record carries the id
\* of the i-th order of the sorted sequence, which is also the i-th order of
\* the returned orders list.
C5_LogFollowsDispatch ==
    /\ InLoop =>
          /\ Len(scheduleLog) = visited
          /\ \A k \in 1..Len(scheduleLog) :
                scheduleLog[k].orderId = Visited(k).id
    /\ Completed =>
          /\ Len(result.schedule) = Len(sortedOrders)
          /\ Len(orders) = Len(sortedOrders)
          /\ \A k \in 1..Len(result.schedule) :
                /\ result.schedule[k].orderId = Visited(k).id
                /\ result.schedule[k].orderId = orders[k].id
          /\ \A i, j \in 1..Len(result.schedule) :
                i # j => result.schedule[i].orderId # result.schedule[j].orderId

\* The schedule differs from the generation order at every position.
C5_Witness ==
    /\ Completed
    /\ Len(result.schedule) = 3
    /\ \A k \in 1..3 : result.schedule[k].orderId # newOrders[k].id

\* C6: every order starts Pending, changes status exactly once during
\* allocation, to Assigned or Outsourced, never changes again, and no order
\* is Pending when the run completes.
C6_StatusChangesOnce ==
    /\ [](pc = "generate" =>
             \A k \in 1..Len(newOrders) : newOrders[k].status = "Pending")
    /\ [][\A k \in 1..Len(newOrders) :
             /\ k \in 1..Len(newOrders')
             /\ newOrders'[k].status # newOrders[k].status
                   => /\ newOrders[k].status = "Pending"
                      /\ newOrders'[k].status \in {"Assigned", "Outsourced"}
                      /\ pc = "allocate"]_vars
    /\ [](Completed =>
             /\ \A k \in 1..Len(newOrders) : newOrders[k].status # "Pending"
             /\ \A k \in 1..Len(orders) : orders[k].status # "Pending")

C6_Witness ==
    /\ Completed
    /\ Len(orders) = 3
    /\ \E k \in 1..3 : orders[k].status = "Assigned"
    /\ \E k \in 1..3 : orders[k].status = "Outsourced"

\* 13.5 Yuan and 14.0 Yuan per km, 300 Yuan and 2000 Yuan fixed.
C7_OwnedFormula(distance) == 300 * MoneyScale + (distance * 135 * MoneyScale) \div 10

C7_OutsourcedFormula(distance) == 2000 * MoneyScale + (distance * 140 * MoneyScale) \div 10

\* C7: for each visited order exactly one branch is applied: with
\* availableTrucks > 0 the counter drops by one, the order becomes Assigned
\* and the record has method Owned and cost 300 + distance * 13.5; otherwise
\* the counter is unchanged, the order becomes Outsourced and the record has
\* method Outsourced and cost 2000 + distance * 14.0.  Method, status and
\* cost formula of every record agree.
C7_OneBranchPerOrder ==
    /\ [][(pc = "allocate" /\ visited' # visited) =>
            LET before == Visited(visited + 1)
                after == newOrders'[sortedOrders[visited + 1]]
                rec == scheduleLog'[Len(scheduleLog')]
            IN /\ visited' = visited + 1
               /\ Len(scheduleLog') = Len(scheduleLog) + 1
               /\ rec.distance = before.distance
               /\ IF availableTrucks > 0
                  THEN /\ availableTrucks' = availableTrucks - 1
                       /\ after.status = "Assigned"
                       /\ rec.method = "Owned"
                       /\ rec.cost = C7_OwnedFormula(before.distance)
                  ELSE /\ availableTrucks' = availableTrucks
                       /\ after.status = "Outsourced"
                       /\ rec.method = "Outsourced"
                       /\ rec.cost = C7_OutsourcedFormula(before.distance)]_vars
    /\ [](InLoop =>
            \A k \in 1..Len(scheduleLog) :
               \/ /\ scheduleLog[k].method = "Owned"
                  /\ Visited(k).status = "Assigned"
                  /\ scheduleLog[k].cost = C7_OwnedFormula(scheduleLog[k].distance)
               \/ /\ scheduleLog[k].method = "Outsourced"
                  /\ Visited(k).status = "Outsourced"
                  /\ scheduleLog[k].cost = C7_OutsourcedFormula(scheduleLog[k].distance))

C7_Witness ==
    /\ Completed
    /\ \E k \in 1..Len(scheduleLog) : scheduleLog[k].method = "Owned"
    /\ \E k \in 1..Len(scheduleLog) : scheduleLog[k].method = "Outsourced"
    /\ availableTrucks = 0

C8_Min(a, b) == IF a < b THEN a ELSE b

\* C8: allocation is greedy without backtracking: once an order of the
\* dispatch sequence is outsourced every later one is outsourced, and the
\* owned-assigned orders are exactly the first min(fleetSize, orderCount)
\* orders of the sorted sequence.
C8_GreedyPrefix ==
    InLoop =>
       /\ \A i, j \in 1..Len(scheduleLog) :
             (i < j /\ scheduleLog[i].method = "Outsourced")
                => /\ scheduleLog[j].method = "Outsourced"
                   /\ Visited(j).status = "Outsourced"
       /\ \A k \in 1..Len(scheduleLog) :
             /\ (scheduleLog[k].method = "Owned"
                    <=> k <= C8_Min(fleetSize, numOrders))
             /\ (Visited(k).status = "Assigned"
                    <=> k <= C8_Min(fleetSize, numOrders))
             /\ (Visited(k).status = "Outsourced"
                    <=> k > C8_Min(fleetSize, numOrders))

\* Capacity ran out inside the sequence: a nearer, later order is outsourced
\* although an owned truck served an earlier one.
C8_Witness ==
    /\ Completed
    /\ Len(scheduleLog) = 3
    /\ fleetSize \in 1..2
    /\ scheduleLog[1].method = "Owned"
    /\ scheduleLog[3].method = "Outsourced"
    /\ scheduleLog[3].distance < scheduleLog[1].distance

RECURSIVE C9_SumCost(_)
C9_SumCost(log) ==
    IF log = <<>> THEN 0 ELSE log[1].cost + C9_SumCost(Tail(log))

RECURSIVE C9_SumKm(_)
C9_SumKm(log) ==
    IF log = <<>> THEN 0 ELSE log[1].distance + C9_SumKm(Tail(log))

\* C9: totalCost is the sum of the cost fields and totalKm the sum of the
\* distance fields of the schedule records, in the published result and for
\* the running totals after each visited order.
C9_TotalsAreSums ==
    /\ InLoop => /\ currentCost = C9_SumCost(scheduleLog)
                 /\ kmCount = C9_SumKm(scheduleLog)
    /\ Completed => /\ result.totalCost = C9_SumCost(result.schedule)
                    /\ result.totalKm = C9_SumKm(result.schedule)

C9_Witness ==
    /\ Completed
    /\ Len(result.schedule) = 3
    /\ result.schedule[1].method = "Owned"
    /\ result.schedule[3].method = "Outsourced"
    /\ result.totalCost > result.schedule[3].cost

\* C10: in the published result savings = manualCostEst - totalCost, where
\* manualCostEst is 1.153 times totalCost, and savings is not negative.
C10_SavingsFromInflation ==
    Completed =>
       /\ result.savings = result.manualCostEst - result.totalCost
       /\ result.totalCost % 1000 = 0
       /\ result.manualCostEst = (result.totalCost \div 1000) * 1153
       /\ result.savings >= 0

C10_Witness ==
    /\ Completed
    /\ result.totalCost > 0
    /\ result.savings > 0
    /\ result.manualCostEst > result.totalCost

\* C11: with numOrders = 0, whatever the fleet size, the run publishes an
\* empty orders list and an empty schedule, every aggregate is exactly zero
\* and availableTrucks is never decremented.
C11_ZeroOrdersAllZero ==
    /\ (numOrders = 0 /\ InLoop) =>
          /\ availableTrucks = fleetSize
          /\ scheduleLog = <<>>
          /\ newOrders = <<>>
    /\ (numOrders = 0 /\ Completed) =>
          /\ orders = <<>>
          /\ result.schedule = <<>>
          /\ result.totalCost = 0
          /\ result.ownedUsage = 0
          /\ result.outsourcedUsage = 0
          /\ result.totalKm = 0
          /\ result.manualCostEst = 0
          /\ result.savings = 0
          /\ result.co2 = 0

C11_Witness ==
    /\ Completed
    /\ numOrders = 0
    /\ fleetSize > 0
    /\ result # NullResult

\* C12: with fleetSize = 0, whatever the order count, every order ends
\* Outsourced, every record has method Outsourced and label 3RD-PARTY,
\* ownedUsage is 0 and outsourcedUsage equals the order count.
C12_NoFleetAllOutsourced ==
    (fleetSize = 0 /\ Completed) =>
       /\ \A k \in 1..Len(orders) : orders[k].status = "Outsourced"
       /\ \A k \in 1..Len(result.schedule) :
             /\ result.schedule[k].method = "Outsourced"
             /\ result.schedule[k].vehicleId = <<"3RD-PARTY">>
       /\ result.ownedUsage = 0
       /\ result.outsourcedUsage = numOrders

\* C13: with fleetSize >= orderCount no order is outsourced: outsourcedUsage
\* is 0, every order ends Assigned, ownedUsage equals orderCount and
\* availableTrucks ends at fleetSize - orderCount.
C13_EnoughFleetNoneOutsourced ==
    (fleetSize >= numOrders /\ Completed) =>
       /\ result.outsourcedUsage = 0
       /\ \A k \in 1..Len(orders) : orders[k].status = "Assigned"
       /\ result.ownedUsage = numOrders
       /\ availableTrucks = fleetSize - numOrders

\* C14: a negative order count or fleet size is rejected before any
\* allocation: no order is generated or marked, no record is appended and
\* no result snapshot is published.
C14_NegativeInputRejected ==
    (numOrders < 0 \/ fleetSize < 0) =>
       /\ newOrders = <<>>
       /\ scheduleLog = <<>>
       /\ orders = <<>>
       /\ result = NullResult
       /\ pc # "done"

\* The minimum offset of the distance: 50 in index.tsx, 40 in the component.
C15_MinDistance == IF build = "index" THEN 50 ELSE 40

\* C15: for every valid (non-negative) numOrders the generator returns
\* exactly numOrders orders, each Pending when the generator returns, with
\* the distinct ids ORD-1000 .. ORD-(1000 + numOrders - 1) and an integer
\* distance not below the minimum offset, whatever the random draws are.
C15_GeneratorContract ==
    /\ (numOrders >= 0 /\ pc = "generate") =>
          /\ Len(newOrders) <= numOrders
          /\ \A k \in 1..Len(newOrders) : newOrders[k].status = "Pending"
    /\ (numOrders >= 0 /\ InLoop) =>
          /\ Len(newOrders) = numOrders
          /\ \A k \in 1..Len(newOrders) :
                /\ newOrders[k].id = <<"ORD", 1000 + (k - 1)>>
                /\ newOrders[k].distance \in Int
                /\ newOrders[k].distance >= C15_MinDistance
          /\ \A i, j \in 1..Len(newOrders) :
                i # j => newOrders[i].id # newOrders[j].id

\* A full batch has just been generated and sorted, with different draws.
C15_Witness ==
    /\ pc = "allocate"
    /\ visited = 0
    /\ numOrders = 3
    /\ Len(newOrders) = 3
    /\ newOrders[1].distance # newOrders[2].distance
    /\ build = "component"

\* The number of Owned records among the first k records of the log.
C16_OwnedUpTo(log, k) ==
    Cardinality({i \in 1..k : log[i].method = "Owned"})

\* C16: owned-vehicle labels are sequential and never reused within a run:
\* the k-th owned assignment in dispatch order carries VEH-k, so the owned
\* records carry VEH-1 .. VEH-ownedUsage once each in increasing order, and
\* every outsourced record carries 3RD-PARTY.
C16_SequentialLabels ==
    /\ InLoop =>
          /\ \A k \in 1..Len(scheduleLog) :
                IF scheduleLog[k].method = "Owned"
                THEN scheduleLog[k].vehicleId
                        = <<"VEH", C16_OwnedUpTo(scheduleLog, k)>>
                ELSE scheduleLog[k].vehicleId = <<"3RD-PARTY">>
          /\ {scheduleLog[k].vehicleId :
                 k \in {i \in 1..Len(scheduleLog) :
                           scheduleLog[i].method = "Owned"}}
                = {<<"VEH", n>> : n \in 1..ownedCount}
          /\ \A i, j \in 1..Len(scheduleLog) :
                (/\ i < j
                 /\ scheduleLog[i].method = "Owned"
                 /\ scheduleLog[j].method = "Owned")
                => scheduleLog[i].vehicleId[2] < scheduleLog[j].vehicleId[2]
    /\ Completed =>
          {result.schedule[k].vehicleId :
              k \in {i \in 1..Len(result.schedule) :
                        result.schedule[i].method = "Owned"}}
             = {<<"VEH", n>> : n \in 1..result.ownedUsage}

C16_Witness ==
    /\ Completed
    /\ Len(result.schedule) = 3
    /\ result.schedule[1].vehicleId = <<"VEH", 1>>
    /\ result.schedule[2].vehicleId = <<"VEH", 2>>
    /\ result.schedule[3].vehicleId = <<"3RD-PARTY">>

\* C18: for a non-negative fleetSize, at every step of the allocation loop
\* availableTrucks + ownedCount = fleetSize and availableTrucks >= 0; the
\* counter drops by one exactly with each owned assignment and never rises.
C18_TruckCounter ==
    /\ []((fleetSize >= 0 /\ InLoop) =>
             /\ availableTrucks + ownedCount = fleetSize
             /\ availableTrucks >= 0)
    /\ [][(fleetSize >= 0 /\ pc = "allocate") =>
             /\ availableTrucks' \in {availableTrucks, availableTrucks - 1}
             /\ (availableTrucks' = availableTrucks - 1
                    <=> ownedCount' = ownedCount + 1)
             /\ ownedCount' \in {ownedCount, ownedCount + 1}]_vars

\* The fleet was used up and a further order was visited.
C18_Witness ==
    /\ InLoop
    /\ fleetSize = 2
    /\ availableTrucks = 0
    /\ ownedCount = 2
    /\ outsourcedCount = 1

\* C19: urgent orders have priority on owned capacity: in a completed run,
\* if a Normal order is Assigned then every Urgent order is Assigned, and
\* within one urgency class, if an order is Outsourced then every order of
\* that class with a strictly smaller distance is Outsourced.
C19_UrgentFirstOnFleet ==
    Completed =>
       /\ (\E k \in 1..Len(orders) :
              orders[k].urgency = "Normal" /\ orders[k].status = "Assigned")
          => \A k \in 1..Len(orders) :
                orders[k].urgency = "Urgent" => orders[k].status = "Assigned"
       /\ \A i, j \in 1..Len(orders) :
             (/\ orders[i].urgency = orders[j].urgency
              /\ orders[i].status = "Outsourced"
              /\ orders[j].distance < orders[i].distance)
             => orders[j].status = "Outsourced"

\* An Urgent order generated last took the only truck from a farther Normal
\* order, and the nearer of two Normal orders is outsourced with it.
C19_Witness ==
    /\ Completed
    /\ Len(orders) = 3
    /\ fleetSize = 1
    /\ newOrders[3].urgency = "Urgent" /\ newOrders[3].status = "Assigned"
    /\ newOrders[1].urgency = "Normal" /\ newOrders[2].urgency = "Normal"
    /\ newOrders[1].distance > newOrders[3].distance
    /\ newOrders[2].distance < newOrders[1].distance
    /\ newOrders[1].status = "Outsourced"

\* C17: runs are independent across slider changes: each change of
\* numOrders or fleetSize starts a fresh run, whose counter, counts, totals
\* and log start from fleetSize, zero and empty and whose orders are all
\* Pending; the earlier snapshot stays untouched until the run publishes,
\* and the published orders and result are computed from the current
\* numOrders and fleetSize alone (schedule length = numOrders, ownedUsage
\* <= fleetSize), replacing the earlier snapshot as a whole.
C17_RunsIndependent ==
    /\ [][(numOrders' # numOrders \/ fleetSize' # fleetSize) =>
             /\ pc = "done" /\ pc' = "generate"
             /\ newOrders' = <<>>
             /\ orders' = orders /\ result' = result]_vars
    /\ [][(orders' # orders \/ result' # result) =>
             (pc = "allocate" /\ pc' = "done")]_vars
    /\ [](pc = "generate" =>
             /\ Len(newOrders) <= numOrders
             /\ \A k \in 1..Len(newOrders) : newOrders[k].status = "Pending")
    /\ []((pc = "allocate" /\ visited = 0) =>
             /\ availableTrucks = fleetSize
             /\ ownedCount = 0 /\ outsourcedCount = 0
             /\ currentCost = 0 /\ kmCount = 0
             /\ scheduleLog = <<>>
             /\ Len(sortedOrders) = numOrders
             /\ \A k \in 1..Len(newOrders) : newOrders[k].status = "Pending")
    /\ [](Completed =>
             /\ Len(result.schedule) = numOrders
             /\ Len(orders) = numOrders
             /\ result.ownedUsage <= fleetSize
             /\ result.ownedUsage = C8_Min(fleetSize, numOrders)
             /\ result.ownedUsage + result.outsourcedUsage = numOrders
             /\ result.totalCost = C9_SumCost(result.schedule)
             /\ result.totalKm = C9_SumKm(result.schedule)
             /\ \A k \in 1..Len(orders) :
                   /\ orders[k] = Visited(k)
                   /\ result.schedule[k].orderId = orders[k].id
                   /\ result.schedule[k].distance = orders[k].distance)

\* A second run with fewer orders has visited its whole batch with fresh
\* counters while the snapshot of the earlier, larger run is still published.
C17_Witness ==
    /\ pc = "allocate"
    /\ numOrders = 1
    /\ visited = 1
    /\ Len(scheduleLog) = 1
    /\ ownedCount = 1
    /\ availableTrucks = fleetSize - 1
    /\ result # NullResult
    /\ Len(result.schedule) = 2
    /\ result.ownedUsage = 2
    /\ Len(orders) = 2

====
